---------------------------- MODULE Spec2Model ----------------------------
(***************************************************************************)
(* A model of yves, an intercepting HTTP(S)/WebSocket proxy.               *)
(*                                                                         *)
(*   SpecCodec : the WebSocket frame codec (WebsocketFragment.Write and    *)
(*               ReadWebsocketFragment) applied to bounded inputs.         *)
(*   Spec      : Proxy.ServeHTTP, one process per inbound connection.      *)
(*   SpecCert  : the certificate cache (certs, getCert, NewProxy).         *)
(***************************************************************************)
EXTENDS Integers, Sequences, FiniteSets, TLC

VARIABLES
    \* ---- frame codec ----
    cpc,        \* position of the codec run
    mode,       \* "encode": the run starts from a fragment; "decode": from raw bytes
    frame,      \* the fragment handed to Write (NoFragment in a "decode" run)
    sinkOk,     \* whether the io.Writer accepts the write
    sink,       \* bytes the io.Writer received from Write
    werr,       \* what Write returned
    src,        \* bytes behind the bufio.Reader given to ReadWebsocketFragment
    rres,       \* what ReadWebsocketFragment returned
    sink2,      \* bytes written when the decoded fragment is written again
    werr2,      \* what that second Write returned
    \* ---- Proxy.ServeHTTP ----
    handleRequestSet,   \* p.HandleRequest != nil
    handleResponseSet,  \* p.HandleResponse != nil
    session,    \* p.session
    mutex,      \* p.sessionMutex: 0 when unlocked, else the connection holding it
    pc,         \* per connection: the position of its ServeHTTP invocation
    sid,        \* per connection: the p.session value put into its context (line 109)
    ctx,        \* per connection: what ctx.Value("session") yields for the ctx in scope
    tmp,        \* per connection: the p.session value loaded by p.session + 1
    path,       \* per connection: "plain" or "tunnel" once classified
    reqNil,     \* per connection: the *http.Request handed to forwardReq is nil
    resp,       \* per connection: the response forwardReq returned
    log,        \* per connection: what the invocation did, in order
    issued,     \* the session ids in the order they were handed out
    \* ---- certificate cache ----
    certs,      \* the package-level map hostname -> leaf
    minted,     \* number of leaves GenerateCert produced so far
    proxies,    \* number of NewProxy calls so far
    history,    \* the getCert calls that returned, in order
    \* ---- concurrent getCert calls ----
    callPc,     \* per caller: the position of its getCert call
    callHost,   \* per caller: the host argument (hello.ServerName)
    callCert,   \* per caller: the local cert GenerateCert returned
    fatal,      \* the runtime stopped the process: concurrent map access
    \* ---- the WebSocket relay ----
    wsHandlers, \* p.HandleWebSocRequest and p.HandleWebSocResponse
    relayPc,    \* the position of proxyWebsocket
    pumpPc,     \* per pump: the position of its interceptWebsocket goroutine
    websocFrag, \* per pump: the fragment in hand
    inbox,      \* per socket: bytes the peer sent that were not read yet
    closed,     \* per socket: the peer is gone, reads give io.EOF once drained
    broken,     \* per socket: writes to it fail
    outbox,     \* per socket: the bytes written to it
    framesIn,   \* per socket: the fragments decoded from it, in order
    framesOut,  \* per socket: the fragments written to it, in order
    hcalls      \* per handler: the fragments it was invoked with, in order

codecVars == <<cpc, mode, frame, sinkOk, sink, werr, src, rres, sink2, werr2>>

proxyVars == <<handleRequestSet, handleResponseSet, session, mutex, pc, sid, ctx,
               tmp, path, reqNil, resp, log, issued>>

certVars == <<certs, minted, proxies, history>>

callerVars == <<callPc, callHost, callCert, fatal>>

relayVars == <<wsHandlers, relayPc, pumpPc, websocFrag, inbox, closed, broken,
               outbox, framesIn, framesOut, hcalls>>

vars == <<codecVars, proxyVars, certVars, callerVars, relayVars>>

Nil == "nil"

-----------------------------------------------------------------------------
(* Bounds of the model *)

\* longest payload of the exhaustively enumerated fragments
MaxLen == 2

\* number of concurrent ServeHTTP invocations
NumConns == 2

\* number of getCert calls, and of NewProxy calls, in one run
MaxCalls == 3
MaxProxies == 2

\* number of goroutines that may be inside getCert at once
NumCallers == 2

\* longest sequence of frames a peer sends into the relay
MaxFrames == 2

-----------------------------------------------------------------------------
(* Program constants *)

finalBit == 128
rsv1Bit == 64
rsv2Bit == 32
rsv3Bit == 16
maskBit == 128

ContinuationFrame == 0
TextMessage == 1
BinaryMessage == 2
CloseMessage == 8
PingMessage == 9
PongMessage == 10

-----------------------------------------------------------------------------
(* Byte arithmetic *)

Byte(x) == x % 256

RECURSIVE Or(_, _)
Or(a, b) ==
    IF a = 0 THEN b
    ELSE IF b = 0 THEN a
    ELSE (IF a % 2 = 1 \/ b % 2 = 1 THEN 1 ELSE 0) + 2 * Or(a \div 2, b \div 2)

RECURSIVE And(_, _)
And(a, b) ==
    IF a = 0 \/ b = 0 THEN 0
    ELSE ((a % 2) * (b % 2)) + 2 * And(a \div 2, b \div 2)

RECURSIVE Xor(_, _)
Xor(a, b) ==
    IF a = 0 THEN b
    ELSE IF b = 0 THEN a
    ELSE ((a + b) % 2) + 2 * Xor(a \div 2, b \div 2)

\* x >> (8*k)
RECURSIVE Shr8(_, _)
Shr8(x, k) == IF k = 0 THEN x ELSE Shr8(x \div 256, k - 1)

\* binary.BigEndian.Uint16 / Uint64
RECURSIVE BigEndian(_)
BigEndian(bs) ==
    IF bs = <<>> THEN 0
    ELSE 256 * BigEndian(SubSeq(bs, 1, Len(bs) - 1)) + bs[Len(bs)]

-----------------------------------------------------------------------------
(* xorEncrypt *)

\* encrypted[i] = b ^ key[i%keyLen]: the index into key
xorKeyIndexMut(i, keyLen) == (i % keyLen) + 1
xorKeyIndex(i, keyLen) == ((i - 1) % keyLen) + 1

\* i % keyLen with keyLen = 0 is a run-time panic (integer divide by zero)
xorPanics(data, key) == Len(data) > 0 /\ Len(key) = 0

xorEncrypt(data, key) ==
    [i \in 1..Len(data) |-> Xor(data[i], key[xorKeyIndex(i, Len(key))])]

-----------------------------------------------------------------------------
(* WebsocketFragment.Write *)

firstByteOf(f) ==
    LET b0 == IF f.FinBit THEN Or(0, finalBit) ELSE 0
        b1 == IF f.Rsv1 THEN Or(b0, rsv1Bit) ELSE b0
        b2 == IF f.Rsv2 THEN Or(b1, rsv2Bit) ELSE b1
        b3 == IF f.Rsv3 THEN Or(b2, rsv3Bit) ELSE b2
    IN  Or(b3, Byte(f.OpCode))

\* the second byte and the extended length that follows it
lengthBytesMut(secondByte, payloadLength) ==
    IF payloadLength <= 126
    THEN <<Or(secondByte, Byte(payloadLength))>>
    ELSE IF payloadLength <= 65536
    THEN <<Or(secondByte, 126), Byte(Shr8(payloadLength, 1)), Byte(payloadLength)>>
    ELSE <<Or(secondByte, 127)>>
         \o [k \in 1..8 |-> Byte(Shr8(payloadLength, 8 - k))]
lengthBytes(secondByte, payloadLength) ==
    IF payloadLength < 126
    THEN <<Or(secondByte, Byte(payloadLength))>>
    ELSE IF payloadLength < 65536
    THEN <<Or(secondByte, 126), Byte(Shr8(payloadLength, 1)), Byte(payloadLength)>>
    ELSE <<Or(secondByte, 127)>>
         \o [k \in 1..8 |-> Byte(Shr8(payloadLength, 8 - k))]

\* if len(frame.Key) != 4 { return ErrorMaskKeyLength }
maskKeyLengthOkMut(f) == Len(f.Key) >= 4
maskKeyLengthOk(f) == Len(f.Key) = 4

\* The result of frame.Write(w): the error returned and the bytes w received.
\* ok tells whether w.Write succeeds; a failing writer received nothing.
Write(f, ok) ==
    LET secondByte == IF f.MaskBit THEN Or(0, maskBit) ELSE 0
        header == <<firstByteOf(f)>> \o lengthBytes(secondByte, f.PayloadLength)
    IN  IF f.MaskBit /\ ~maskKeyLengthOk(f)
        THEN [err |-> "ErrorMaskKeyLength", out |-> <<>>]
        ELSE IF xorPanics(f.Data, f.Key)
        THEN [err |-> "panic", out |-> <<>>]
        ELSE IF ~ok
        THEN [err |-> "writing header to the writer", out |-> <<>>]
        ELSE [err |-> Nil,
              out |-> header \o (IF f.MaskBit THEN f.Key ELSE <<>>)
                            \o xorEncrypt(f.Data, f.Key)]

-----------------------------------------------------------------------------
(* ReadWebsocketFragment *)

\* websocFrame := &WebsocketFragment{} ; also stands for a nil *WebsocketFragment
NoFragment ==
    [FinBit |-> FALSE, Rsv1 |-> FALSE, Rsv2 |-> FALSE, Rsv3 |-> FALSE, OpCode |-> 0,
     MaskBit |-> FALSE, PayloadLength |-> 0, Key |-> <<>>, Data |-> <<>>]

\* number of extended length bytes selected by the 7-bit length
extLen(l7) == IF l7 = 126 THEN 2 ELSE IF l7 = 127 THEN 8 ELSE 0

\* websocFrame.Data = xorEncrypt(data, websocFrame.Key)
unmaskMut(data, key) == data
unmask(data, key) == xorEncrypt(data, key)

\* key := make([]byte, 4), filled from the wire when the mask bit is set
readKey(b, at, masked) == IF masked THEN SubSeq(b, at, at + 3) ELSE <<0, 0, 0, 0>>

\* The result of ReadWebsocketFragment on a reader holding the bytes b: the
\* error, the fragment and the number of bytes consumed from the reader.
\* Every ReadByte past the end of b returns io.EOF.
ReadWebsocketFragment(b) ==
    LET eof(n) == [err |-> "EOF", frag |-> NoFragment, n |-> n]
    IN
    IF Len(b) < 2 THEN eof(Len(b))
    ELSE
    LET byte0 == b[1]
        byte1 == b[2]
        masked == And(byte1, maskBit) # 0
        l7 == And(byte1, 127)
        ext == extLen(l7)
    IN
    IF Len(b) < 2 + ext THEN eof(Len(b))
    ELSE
    LET payloadLength == IF ext = 0 THEN l7 ELSE BigEndian(SubSeq(b, 3, 2 + ext))
        keyAt == 3 + ext
        keyLen == IF masked THEN 4 ELSE 0
    IN
    IF Len(b) < 2 + ext + keyLen THEN eof(Len(b))
    ELSE
    LET key == readKey(b, keyAt, masked)
        dataAt == keyAt + keyLen
    IN
    IF Len(b) < dataAt - 1 + payloadLength THEN eof(Len(b))
    ELSE
    LET data == SubSeq(b, dataAt, dataAt - 1 + payloadLength)
    IN  [err |-> Nil,
         frag |-> [FinBit |-> And(byte0, finalBit) # 0,
                   Rsv1 |-> And(byte0, rsv1Bit) # 0,
                   Rsv2 |-> And(byte0, rsv2Bit) # 0,
                   Rsv3 |-> And(byte0, rsv3Bit) # 0,
                   OpCode |-> And(byte0, 15),
                   MaskBit |-> masked,
                   PayloadLength |-> payloadLength,
                   Key |-> key,
                   Data |-> unmask(data, key)],
         n |-> dataAt - 1 + payloadLength]

\* the codec variables of a run that does not exercise the codec
CodecIdle ==
    /\ cpc = "idle" /\ mode = "idle" /\ frame = NoFragment /\ sinkOk = TRUE
    /\ sink = <<>> /\ werr = "none" /\ src = <<>>
    /\ rres = [err |-> "none", frag |-> NoFragment, n |-> 0]
    /\ sink2 = <<>> /\ werr2 = "none"

-----------------------------------------------------------------------------
(* Values shared by the specifications, and the resting state of each part *)

Conns == 1..NumConns

\* ctx.Value("session") of a context that carries no session
NoSession == -1

NoResp == "none"

Hosts == {"a.example", "b.example"}

NoLeaf == [host |-> "none", serial |-> -1]

\* certs = make(map[string]*tls.Certificate)
EmptyCerts == [h \in Hosts |-> NoLeaf]

ProxyIdle ==
    /\ handleRequestSet = FALSE /\ handleResponseSet = FALSE
    /\ session = 0 /\ mutex = 0
    /\ pc = [c \in Conns |-> "idle"]
    /\ sid = [c \in Conns |-> NoSession]
    /\ ctx = [c \in Conns |-> NoSession]
    /\ tmp = [c \in Conns |-> 0]
    /\ path = [c \in Conns |-> "none"]
    /\ reqNil = [c \in Conns |-> FALSE]
    /\ resp = [c \in Conns |-> NoResp]
    /\ log = [c \in Conns |-> <<>>]
    /\ issued = <<>>

CertIdle ==
    /\ certs = EmptyCerts /\ minted = 0 /\ proxies = 0 /\ history = <<>>

Callers == 1..NumCallers

CallerIdle ==
    /\ callPc = [k \in Callers |-> "idle"]
    /\ callHost = [k \in Callers |-> "none"]
    /\ callCert = [k \in Callers |-> NoLeaf]
    /\ fatal = FALSE

\* the two goroutines proxyWebsocket starts, in the order of the go statements
Pumps == {1, 2}

\* the two ends of a relay: source (clientConn) and dest (targetConn)
Socks == {"client", "target"}

HandlerNames == {"HandleWebSocRequest", "HandleWebSocResponse"}

RelayIdle ==
    /\ wsHandlers = [n \in HandlerNames |-> "nil"]
    /\ relayPc = "idle"
    /\ pumpPc = [p \in Pumps |-> "idle"]
    /\ websocFrag = [p \in Pumps |-> NoFragment]
    /\ inbox = [x \in Socks |-> <<>>]
    /\ closed = [x \in Socks |-> FALSE]
    /\ broken = [x \in Socks |-> FALSE]
    /\ outbox = [x \in Socks |-> <<>>]
    /\ framesIn = [x \in Socks |-> <<>>]
    /\ framesOut = [x \in Socks |-> <<>>]
    /\ hcalls = [n \in HandlerNames |-> <<>>]

-----------------------------------------------------------------------------
(* Proxy.ServeHTTP: one invocation per inbound connection *)

Emit(c, evs) == [log EXCEPT ![c] = @ \o evs]

\* ServeHTTP returns (or unwinds) after evs: the deferred clientConn.Close() runs
Returning(evs) == evs \o <<<<"Close", "client">>>>

Goto(c, where) == [pc EXCEPT ![c] = where]

\* p.sessionMutex.Lock() returns only when no one holds the mutex
mutexFreeMut == TRUE
mutexFree == mutex = 0

\* if hResp != nil { return hResp, nil }
shortCircuitsMut(hResp) == FALSE
shortCircuits(hResp) == hResp # "nil"

\* the session id a handler is invoked with: ctx.Value("session").(int64)
sessionOf(c) == ctx[c]

\* p.sessionMutex.Lock()
Lock(c) ==
    /\ pc[c] = "start"
    /\ mutexFree
    /\ mutex' = c
    /\ pc' = Goto(c, "ctx")
    /\ UNCHANGED <<handleRequestSet, handleResponseSet, session, sid, ctx, tmp,
                   path, reqNil, resp, log, issued>>
    /\ UNCHANGED <<codecVars, certVars, callerVars, relayVars>>

\* ctx := context.WithValue(context.Background(), "session", p.session)
WithSession(c) ==
    /\ pc[c] = "ctx"
    /\ sid' = [sid EXCEPT ![c] = session]
    /\ ctx' = [ctx EXCEPT ![c] = session]
    /\ issued' = Append(issued, session)
    /\ pc' = Goto(c, "load")
    /\ UNCHANGED <<handleRequestSet, handleResponseSet, session, mutex, tmp,
                   path, reqNil, resp, log>>
    /\ UNCHANGED <<codecVars, certVars, callerVars, relayVars>>

\* p.session = p.session + 1: the read
LoadSession(c) ==
    /\ pc[c] = "load"
    /\ tmp' = [tmp EXCEPT ![c] = session]
    /\ pc' = Goto(c, "store")
    /\ UNCHANGED <<handleRequestSet, handleResponseSet, session, mutex, sid, ctx,
                   path, reqNil, resp, log, issued>>
    /\ UNCHANGED <<codecVars, certVars, callerVars, relayVars>>

\* p.session = p.session + 1: the write
StoreSession(c) ==
    /\ pc[c] = "store"
    /\ session' = tmp[c] + 1
    /\ pc' = Goto(c, "unlock")
    /\ UNCHANGED <<handleRequestSet, handleResponseSet, mutex, sid, ctx, tmp,
                   path, reqNil, resp, log, issued>>
    /\ UNCHANGED <<codecVars, certVars, callerVars, relayVars>>

\* p.sessionMutex.Unlock()
Unlock(c) ==
    /\ pc[c] = "unlock"
    /\ mutex' = 0
    /\ pc' = Goto(c, "hijack")
    /\ UNCHANGED <<handleRequestSet, handleResponseSet, session, sid, ctx, tmp,
                   path, reqNil, resp, log, issued>>
    /\ UNCHANGED <<codecVars, certVars, callerVars, relayVars>>

\* hijacker, ok := wrt.(http.Hijacker); if !ok { HttpError(wrt, ...); return }
hijackableMut(ok) == TRUE
hijackable(ok) == ok

\* the type assertion wrt.(http.Hijacker) as the log records it
Asserted(ok) == IF ok THEN <<>> ELSE <<<<"NotHijacker">>>>

\* hijacker, ok := wrt.(http.Hijacker) ... clientConn, _, err := hijacker.Hijack()
\* defer clientConn.Close() is registered before err is looked at: when Hijack
\* failed, clientConn is nil and the deferred Close panics on return.
Hijack(c) ==
    /\ pc[c] = "hijack"
    /\ \E ok \in BOOLEAN, failed \in BOOLEAN :
          IF ~hijackable(ok)
          THEN /\ log' = Emit(c, Asserted(ok) \o <<<<"HttpError", "wrt">>>>)
               /\ pc' = Goto(c, "done")
          ELSE IF failed
          THEN /\ log' = Emit(c, Asserted(ok) \o <<<<"HttpError", "wrt">>,
                                                     <<"panic", "nil clientConn">>>>)
               /\ pc' = Goto(c, "done")
          ELSE /\ log' = Emit(c, Asserted(ok) \o <<<<"Open", "client">>>>)
               /\ pc' = Goto(c, "classify")
    /\ UNCHANGED <<handleRequestSet, handleResponseSet, session, mutex, sid, ctx,
                   tmp, path, reqNil, resp, issued>>
    /\ UNCHANGED <<codecVars, certVars, callerVars, relayVars>>

\* if req.Method != http.MethodConnect
Classify(c) ==
    /\ pc[c] = "classify"
    /\ \E method \in {"GET", "CONNECT"} :
          IF method # "CONNECT"
          THEN path' = [path EXCEPT ![c] = "plain"] /\ pc' = Goto(c, "forwardReq")
          ELSE path' = [path EXCEPT ![c] = "tunnel"] /\ pc' = Goto(c, "tunnel")
    /\ UNCHANGED <<handleRequestSet, handleResponseSet, session, mutex, sid, ctx,
                   tmp, reqNil, resp, log, issued>>
    /\ UNCHANGED <<codecVars, certVars, callerVars, relayVars>>

\* where HttpError writes when forwardReq fails: wrt on the plaintext path
\* (line 146), clientConn in the tunnel (line 229)
forwardErrTarget(c) == IF path[c] = "plain" THEN "wrt" ELSE "clientConn"

\* resp, err := p.forwardReq(ctx, req, ...), with the caller's handling of err.
\* A panic unwinds ServeHTTP: the deferred Close calls still run.
ForwardReq(c) ==
    /\ pc[c] = "forwardReq"
    /\ \E hResp \in {"nil", "handler"}, sent \in {"parseErr", "doErr", "ok"} :
          IF handleRequestSet /\ sessionOf(c) = NoSession
          THEN \* ctx.Value("session").(int64) on a nil interface value
               /\ log' = Emit(c, Returning(<<<<"panic", "session">>>>))
               /\ resp' = resp
               /\ pc' = Goto(c, "done")
          ELSE IF handleRequestSet /\ shortCircuits(hResp)
          THEN /\ log' = Emit(c, <<<<"HandleRequest", sessionOf(c), hResp>>>>)
               /\ resp' = [resp EXCEPT ![c] = "handler"]
               /\ pc' = Goto(c, "forwardResp")
          ELSE LET called == IF handleRequestSet
                             THEN <<<<"HandleRequest", sessionOf(c), hResp>>>>
                             ELSE <<>>
               IN  IF reqNil[c]
                   THEN \* clientRequest.RequestURI = "" on a nil request
                        /\ log' = Emit(c, Returning(called \o <<<<"panic", "nil request">>>>))
                        /\ resp' = resp
                        /\ pc' = Goto(c, "done")
                   ELSE IF sent = "parseErr"
                   THEN /\ log' = Emit(c, Returning(called \o <<<<"HttpError", forwardErrTarget(c)>>>>))
                        /\ resp' = resp
                        /\ pc' = Goto(c, "done")
                   ELSE IF sent = "doErr"
                   THEN /\ log' = Emit(c, Returning(called \o <<<<"Upstream", FALSE>>,
                                                      <<"HttpError", forwardErrTarget(c)>>>>))
                        /\ resp' = resp
                        /\ pc' = Goto(c, "done")
                   ELSE /\ log' = Emit(c, called \o <<<<"Upstream", TRUE>>>>)
                        /\ resp' = [resp EXCEPT ![c] = "upstream"]
                        /\ pc' = Goto(c, "forwardResp")
    /\ UNCHANGED <<handleRequestSet, handleResponseSet, session, mutex, sid, ctx,
                   tmp, path, reqNil, issued>>
    /\ UNCHANGED <<codecVars, certVars, callerVars, relayVars>>

\* error := p.forwardResp(ctx, resp, clientConn, reqClone), with the caller's
\* handling of the error
ForwardResp(c) ==
    /\ pc[c] = "forwardResp"
    /\ \E written \in BOOLEAN :
          IF handleResponseSet /\ sessionOf(c) = NoSession
          THEN log' = Emit(c, Returning(<<<<"panic", "session">>>>))
          ELSE LET called == IF handleResponseSet
                             THEN <<<<"HandleResponse", sessionOf(c), resp[c]>>>>
                             ELSE <<>>
               IN  log' = Emit(c, Returning(called \o <<<<"WriteResp", resp[c], written>>>>
                                   \o (IF written THEN <<>>
                                       ELSE <<<<"HttpError", "clientConn">>>>)))
    /\ pc' = Goto(c, "done")
    /\ UNCHANGED <<handleRequestSet, handleResponseSet, session, mutex, sid, ctx,
                   tmp, path, reqNil, resp, issued>>
    /\ UNCHANGED <<codecVars, certVars, callerVars, relayVars>>

\* clientConn.Write([]byte(okHeader)); ctx, cancel := context.WithTimeout(
\* context.Background(), ...) declares a new ctx in the else block, which
\* carries no session; _, err := d.DialContext(ctx, "tcp", req.RequestURI)
Tunnel(c) ==
    /\ pc[c] = "tunnel"
    /\ ctx' = [ctx EXCEPT ![c] = NoSession]
    /\ \E speaksTls \in BOOLEAN :
          IF speaksTls
          THEN /\ log' = Emit(c, <<<<"Write200">>, <<"Open", "probe">>>>)
               /\ pc' = Goto(c, "tls")
          ELSE /\ log' = Emit(c, <<<<"Write200">>>>)
               /\ pc' = Goto(c, "plainws")
    /\ UNCHANGED <<handleRequestSet, handleResponseSet, session, mutex, sid, tmp,
                   path, reqNil, resp, issued>>
    /\ UNCHANGED <<codecVars, certVars, callerVars, relayVars>>

\* the probe failed: req, err := http.ReadRequest(clientTlsReader);
\* if isWebSocketRequest(req) { p.serveWebsocket(...) }; return
\* After a failed read req is nil and isWebSocketRequest dereferences it.
PlainWs(c) ==
    /\ pc[c] = "plainws"
    /\ \E read \in {"err", "websocket", "http"} :
          CASE read = "err" ->
                 /\ log' = Emit(c, Returning(<<<<"ReadRequest", read>>,
                                               <<"panic", "nil request">>>>))
                 /\ pc' = Goto(c, "done")
            [] read = "websocket" ->
                 /\ log' = Emit(c, <<<<"ReadRequest", read>>>>)
                 /\ pc' = Goto(c, "serveWebsocket")
            [] OTHER ->
                 /\ log' = Emit(c, Returning(<<<<"ReadRequest", read>>>>))
                 /\ pc' = Goto(c, "done")
    /\ UNCHANGED <<handleRequestSet, handleResponseSet, session, mutex, sid, ctx,
                   tmp, path, reqNil, resp, issued>>
    /\ UNCHANGED <<codecVars, certVars, callerVars, relayVars>>

\* clientConn = p.startTlsWithClient(clientConn); defer clientConn.Close();
\* for !isEob(clientTlsReader) { ... req, err := http.ReadRequest(...) ... }
\* A failed handshake is only logged; the Peek of isEob then fails.
TlsLoop(c) ==
    /\ pc[c] = "tls"
    /\ \E handshake \in BOOLEAN, read \in {"eob", "err", "websocket", "http"} :
          IF ~handshake \/ read = "eob"
          THEN /\ reqNil' = reqNil
               /\ log' = Emit(c, Returning(<<>>))
               /\ pc' = Goto(c, "done")
          ELSE IF read = "err"
          THEN \* falls through to p.forwardReq(ctx, req, destinationHost)
               /\ reqNil' = [reqNil EXCEPT ![c] = TRUE]
               /\ log' = Emit(c, <<<<"ReadRequest", read>>>>)
               /\ pc' = Goto(c, "forwardReq")
          ELSE IF read = "websocket"
          THEN /\ reqNil' = reqNil
               /\ log' = Emit(c, <<<<"ReadRequest", read>>>>)
               /\ pc' = Goto(c, "serveWebsocket")
          ELSE \* a request that was read is never forwarded (line 224)
               /\ reqNil' = reqNil
               /\ log' = Emit(c, Returning(<<<<"ReadRequest", read>>>>))
               /\ pc' = Goto(c, "done")
    /\ UNCHANGED <<handleRequestSet, handleResponseSet, session, mutex, sid, ctx,
                   tmp, path, resp, issued>>
    /\ UNCHANGED <<codecVars, certVars, callerVars, relayVars>>

\* websocketHandshake gives up on the upstream's answer: http.ReadResponse
\* failed, or target_site_response.StatusCode != 101
handshakeFailedMut(outcome) == outcome = "readErr"
handshakeFailed(outcome) == outcome \in {"readErr", "not101"}

\* serveWebsocket up to the call of proxyWebsocket: connectDial, defer
\* targetConn.Close(), websocketHandshake
ServeWebsocket(c) ==
    /\ pc[c] = "serveWebsocket"
    /\ \E outcome \in {"dialErr", "noKey", "clientWriteErr", "readErr", "not101", "101"} :
          CASE outcome = "dialErr" ->
                 /\ log' = Emit(c, Returning(<<<<"Dial", FALSE>>>>))
                 /\ pc' = Goto(c, "done")
            [] outcome = "noKey" ->
                 \* req.Header["Sec-Websocket-Key"][0] on a missing header
                 /\ log' = Emit(c, Returning(<<<<"Open", "target">>, <<"panic", "index">>,
                                     <<"Close", "target">>>>))
                 /\ pc' = Goto(c, "done")
            [] outcome = "clientWriteErr" ->
                 /\ log' = Emit(c, Returning(<<<<"Open", "target">>, <<"Close", "target">>>>))
                 /\ pc' = Goto(c, "done")
            [] handshakeFailed(outcome) ->
                 /\ log' = Emit(c, Returning(<<<<"Open", "target">>, <<"Write101">>,
                                     <<"Answer", outcome>>, <<"Close", "target">>>>))
                 /\ pc' = Goto(c, "done")
            [] OTHER ->
                 /\ log' = Emit(c, <<<<"Open", "target">>, <<"Write101">>,
                                    <<"Answer", outcome>>>>)
                 /\ pc' = Goto(c, "proxyWebsocket")
    /\ UNCHANGED <<handleRequestSet, handleResponseSet, session, mutex, sid, ctx,
                   tmp, path, reqNil, resp, issued>>
    /\ UNCHANGED <<codecVars, certVars, callerVars, relayVars>>

\* proxyWebsocket: both pumps are started, then <-errChan, on which nothing
\* ever sends: the invocation stays blocked
ProxyWebsocket(c) ==
    /\ pc[c] = "proxyWebsocket"
    /\ log' = Emit(c, <<<<"go", "interceptWebsocket">>, <<"go", "interceptWebsocket">>>>)
    /\ pc' = Goto(c, "blocked")
    /\ UNCHANGED <<handleRequestSet, handleResponseSet, session, mutex, sid, ctx,
                   tmp, path, reqNil, resp, issued>>
    /\ UNCHANGED <<codecVars, certVars, callerVars, relayVars>>

\* NewProxy's zero-valued Proxy with the handlers the embedding program set
Init ==
    /\ CodecIdle /\ CertIdle /\ CallerIdle /\ RelayIdle
    /\ handleRequestSet \in BOOLEAN
    /\ handleResponseSet \in BOOLEAN
    /\ session = 0
    /\ mutex = 0
    /\ pc = [c \in Conns |-> "start"]
    /\ sid = [c \in Conns |-> NoSession]
    /\ ctx = [c \in Conns |-> NoSession]
    /\ tmp = [c \in Conns |-> 0]
    /\ path = [c \in Conns |-> "none"]
    /\ reqNil = [c \in Conns |-> FALSE]
    /\ resp = [c \in Conns |-> NoResp]
    /\ log = [c \in Conns |-> <<>>]
    /\ issued = <<>>

ServeHTTP(c) ==
    \/ Lock(c) \/ WithSession(c) \/ LoadSession(c) \/ StoreSession(c) \/ Unlock(c)
    \/ Hijack(c) \/ Classify(c) \/ ForwardReq(c) \/ ForwardResp(c)
    \/ Tunnel(c) \/ PlainWs(c) \/ TlsLoop(c) \/ ServeWebsocket(c)
    \/ ProxyWebsocket(c)

Next == \E c \in Conns : ServeHTTP(c)

Spec == Init /\ [][Next]_vars

-----------------------------------------------------------------------------
(* The certificate cache: certs, getCert, GenerateCert, NewProxy *)

\* val, ok := certs[host]
cached(h) == certs[h] # NoLeaf

\* the leaf GenerateCert builds for host: a fresh serial and key each time
GenerateCert(h) == [host |-> h, serial |-> minted]

\* certs[host] = cert
store(h, leaf) == [certs EXCEPT ![h] = leaf]

\* the state after the first NewProxy()
InitCert ==
    /\ CodecIdle /\ ProxyIdle /\ CallerIdle /\ RelayIdle
    /\ certs = EmptyCerts
    /\ minted = 0
    /\ proxies = 1
    /\ history = <<>>

\* NewProxy(): certs = make(map[string]*tls.Certificate)
NewProxy ==
    /\ proxies < MaxProxies
    /\ proxies' = proxies + 1
    /\ certs' = EmptyCerts
    /\ UNCHANGED <<minted, history>>
    /\ UNCHANGED <<codecVars, proxyVars, callerVars, relayVars>>

\* one call getCert(ca, h) run to completion; isCA is ca.Leaf.IsCA and genOk
\* tells whether the serial, the key and the DER encoding could be produced
GetCert(h) ==
    /\ Len(history) < MaxCalls
    /\ \E isCA \in BOOLEAN, genOk \in BOOLEAN :
          IF cached(h)
          THEN /\ history' = Append(history, [host |-> h, leaf |-> certs[h],
                                              fresh |-> FALSE, gen |-> proxies])
               /\ UNCHANGED <<certs, minted>>
          ELSE IF ~isCA \/ ~genOk
          THEN /\ history' = Append(history, [host |-> h, leaf |-> NoLeaf,
                                              fresh |-> FALSE, gen |-> proxies])
               /\ UNCHANGED <<certs, minted>>
          ELSE /\ history' = Append(history, [host |-> h, leaf |-> GenerateCert(h),
                                              fresh |-> TRUE, gen |-> proxies])
               /\ certs' = store(h, GenerateCert(h))
               /\ minted' = minted + 1
    /\ UNCHANGED proxies
    /\ UNCHANGED <<codecVars, proxyVars, callerVars, relayVars>>

NextCert == NewProxy \/ \E h \in Hosts : GetCert(h)

SpecCert == InitCert /\ [][NextCert]_vars

-----------------------------------------------------------------------------
(* getCert called from the GetCertificate callbacks of concurrent handshakes *)

\* the calls that were made and have not returned
InFlight == {k \in Callers : callPc[k] \in {"lookup", "generate", "store"}}

\* the positions at which a caller touches the map: the read of certs[host]
\* and the assignment certs[host] = cert
AtMapRead == {k \in Callers : callPc[k] = "lookup"}
AtMapWrite == {k \in Callers : callPc[k] = "store"}

\* the state after NewProxy(), no handshake under way
InitCertConc ==
    /\ CodecIdle /\ ProxyIdle /\ RelayIdle
    /\ certs = EmptyCerts
    /\ minted = 0
    /\ proxies = 1
    /\ history = <<>>
    /\ callPc = [k \in Callers |-> "idle"]
    /\ callHost = [k \in Callers |-> "none"]
    /\ callCert = [k \in Callers |-> NoLeaf]
    /\ fatal = FALSE

\* tlfConf.GetCertificate calls getCert(CA, hello.ServerName) during the
\* handshake of a connection's goroutine
CallGetCert(k, h) ==
    /\ ~fatal
    /\ callPc[k] \in {"idle", "returned"}
    /\ Len(history) + Cardinality(InFlight) < MaxCalls
    /\ callPc' = [callPc EXCEPT ![k] = "lookup"]
    /\ callHost' = [callHost EXCEPT ![k] = h]
    /\ callCert' = [callCert EXCEPT ![k] = NoLeaf]
    /\ UNCHANGED <<certs, minted, proxies, history, fatal>>
    /\ UNCHANGED <<codecVars, proxyVars, relayVars>>

\* if val, ok := certs[host]; ok { return val, nil }
Lookup(k) ==
    /\ ~fatal
    /\ callPc[k] = "lookup"
    /\ IF cached(callHost[k])
       THEN /\ history' = Append(history, [host |-> callHost[k],
                                           leaf |-> certs[callHost[k]],
                                           fresh |-> FALSE, gen |-> proxies])
            /\ callPc' = [callPc EXCEPT ![k] = "returned"]
       ELSE /\ history' = history
            /\ callPc' = [callPc EXCEPT ![k] = "generate"]
    /\ UNCHANGED <<certs, minted, proxies, callHost, callCert, fatal>>
    /\ UNCHANGED <<codecVars, proxyVars, relayVars>>

\* cert, err := GenerateCert(ca, host); if err != nil { return nil, err }
Generate(k) ==
    /\ ~fatal
    /\ callPc[k] = "generate"
    /\ \E isCA \in BOOLEAN, genOk \in BOOLEAN :
          IF ~isCA \/ ~genOk
          THEN /\ history' = Append(history, [host |-> callHost[k], leaf |-> NoLeaf,
                                              fresh |-> FALSE, gen |-> proxies])
               /\ callPc' = [callPc EXCEPT ![k] = "returned"]
               /\ UNCHANGED <<callCert, minted>>
          ELSE /\ callCert' = [callCert EXCEPT ![k] = GenerateCert(callHost[k])]
               /\ minted' = minted + 1
               /\ callPc' = [callPc EXCEPT ![k] = "store"]
               /\ history' = history
    /\ UNCHANGED <<certs, proxies, callHost, fatal>>
    /\ UNCHANGED <<codecVars, proxyVars, relayVars>>

\* certs[host] = cert; return cert, nil
Store(k) ==
    /\ ~fatal
    /\ callPc[k] = "store"
    /\ certs' = store(callHost[k], callCert[k])
    /\ history' = Append(history, [host |-> callHost[k], leaf |-> callCert[k],
                                   fresh |-> TRUE, gen |-> proxies])
    /\ callPc' = [callPc EXCEPT ![k] = "returned"]
    /\ UNCHANGED <<minted, proxies, callHost, callCert, fatal>>
    /\ UNCHANGED <<codecVars, proxyVars, relayVars>>

\* certs is a plain map with no lock around it: when an assignment overlaps
\* another access the accesses may take effect one after the other (Lookup,
\* Store) or the runtime may stop the process ("fatal error: concurrent map
\* writes", "concurrent map read and map write")
MapFault ==
    /\ ~fatal
    /\ \E k \in AtMapWrite : (AtMapRead \cup AtMapWrite) \ {k} # {}
    /\ fatal' = TRUE
    /\ UNCHANGED <<certs, minted, proxies, history, callPc, callHost, callCert>>
    /\ UNCHANGED <<codecVars, proxyVars, relayVars>>

NextCertConc ==
    \/ \E k \in Callers, h \in Hosts : CallGetCert(k, h)
    \/ \E k \in Callers : Lookup(k) \/ Generate(k) \/ Store(k)
    \/ MapFault

SpecCertConc == InitCertConc /\ [][NextCertConc]_vars

-----------------------------------------------------------------------------
(* Inputs of the codec runs *)

TestKey == <<26, 43, 60, 77>>      \* 1A 2B 3C 4D
ZeroKey == <<0, 0, 0, 0>>

Keys == {<<>>, TestKey, ZeroKey, TestKey \o <<0>>}

DataBytes == {104, 255}

Datas == UNION {[1..n -> DataBytes] : n \in 0..MaxLen}

OpCodes == {ContinuationFrame, TextMessage, BinaryMessage, PongMessage, 18, 130}

Fragment(fin, r1, r2, r3, op, mask, plen, key, data) ==
    [FinBit |-> fin, Rsv1 |-> r1, Rsv2 |-> r2, Rsv3 |-> r3, OpCode |-> op,
     MaskBit |-> mask, PayloadLength |-> plen, Key |-> key, Data |-> data]

\* every small fragment, well formed or not
SmallFragments ==
    [FinBit : BOOLEAN, Rsv1 : BOOLEAN, Rsv2 : BOOLEAN, Rsv3 : BOOLEAN,
     OpCode : OpCodes, MaskBit : BOOLEAN, PayloadLength : 0..(MaxLen + 1),
     Key : Keys, Data : Datas]

HelloWorld == <<104, 101, 108, 108, 111, 32, 119, 111, 114, 108, 100>>
\* the payload of the repository's test case: its last byte is 6C, not 64
HelloWorll == <<104, 101, 108, 108, 111, 32, 119, 111, 114, 108, 108>>

ScenarioA == Fragment(TRUE, FALSE, FALSE, FALSE, BinaryMessage, TRUE, 11, TestKey, HelloWorld)
TestCaseWrite == Fragment(TRUE, FALSE, FALSE, FALSE, BinaryMessage, TRUE, 11, TestKey, HelloWorll)

Fill(n) == [i \in 1..n |-> 104]

BoundaryLengths == {125, 126, 65535, 65536}

BoundaryFragments ==
    {Fragment(TRUE, FALSE, FALSE, FALSE, BinaryMessage, m, n, IF m THEN TestKey ELSE ZeroKey, Fill(n)) :
        m \in BOOLEAN, n \in BoundaryLengths}

Fragments == SmallFragments \cup BoundaryFragments \cup {ScenarioA, TestCaseWrite}

\* the expected bytes of the repository's test case
TestWire == <<130, 139, 26, 43, 60, 77, 114, 78, 80, 33, 117, 11, 75, 34, 104, 71, 80>>

\* 82 FE 00 7E followed by 126 bytes, and followed by a key and 126 bytes
Wire126Short == <<130, 254, 0, 126>> \o Fill(126)
Wire126Masked == <<130, 254, 0, 126>> \o TestKey \o Fill(126)
Wire126Unmasked == <<130, 126, 0, 126>> \o Fill(126)

RawWires ==
    {TestWire, Wire126Short, Wire126Masked, Wire126Unmasked,
     <<>>, <<130>>, <<130, 139, 26>>, <<130, 126, 0>>, <<130, 2, 104>>,
     <<130, 127, 0, 0, 0, 0, 0, 0, 0, 1, 255>>, <<129, 1, 104, 255>>}

-----------------------------------------------------------------------------
(* The codec runs *)

InitCodec ==
    /\ ProxyIdle /\ CertIdle /\ CallerIdle /\ RelayIdle
    /\ cpc = "start"
    /\ \/ mode = "encode" /\ frame \in Fragments /\ src = <<>>
       \/ mode = "decode" /\ frame = NoFragment /\ src \in RawWires
    /\ sinkOk \in BOOLEAN
    /\ sink = <<>>
    /\ werr = "none"
    /\ rres = [err |-> "none", frag |-> NoFragment, n |-> 0]
    /\ sink2 = <<>>
    /\ werr2 = "none"

\* frame.Write(w)
DoWrite ==
    /\ cpc = "start"
    /\ mode = "encode"
    /\ LET r == Write(frame, sinkOk)
       IN  sink' = r.out /\ werr' = r.err
    /\ cpc' = "written"
    /\ UNCHANGED <<mode, frame, sinkOk, src, rres, sink2, werr2>>
    /\ UNCHANGED <<proxyVars, certVars, callerVars, relayVars>>

\* ReadWebsocketFragment(bufio.NewReader(bytes.NewReader(b))), b the bytes
\* Write produced or the raw input
DoRead ==
    /\ \/ cpc = "written" /\ werr = Nil /\ src' = sink
       \/ cpc = "start" /\ mode = "decode" /\ src' = src
    /\ rres' = ReadWebsocketFragment(src')
    /\ cpc' = "read"
    /\ UNCHANGED <<mode, frame, sinkOk, sink, werr, sink2, werr2>>
    /\ UNCHANGED <<proxyVars, certVars, callerVars, relayVars>>

\* the decoded fragment is written again
DoRewrite ==
    /\ cpc = "read"
    /\ rres.err = Nil
    /\ LET r == Write(rres.frag, TRUE)
       IN  sink2' = r.out /\ werr2' = r.err
    /\ cpc' = "rewritten"
    /\ UNCHANGED <<mode, frame, sinkOk, sink, werr, src, rres>>
    /\ UNCHANGED <<proxyVars, certVars, callerVars, relayVars>>

NextCodec == DoWrite \/ DoRead \/ DoRewrite

SpecCodec == InitCodec /\ [][NextCodec]_vars

-----------------------------------------------------------------------------
(* The WebSocket relay: proxyWebsocket and its two interceptWebsocket pumps *)

\* the example handler: in a final text fragment every forbidden word is
\* replaced by the redacted form, Data and PayloadLength updated; the words
\* are one and two bytes long here
forbiddenWord == 104
redactedForm == <<120, 120>>

RECURSIVE ReplaceAll(_)
ReplaceAll(message) ==
    IF message = <<>> THEN <<>>
    ELSE (IF Head(message) = forbiddenWord THEN redactedForm ELSE <<Head(message)>>)
             \o ReplaceAll(Tail(message))

redact(webFrag) ==
    IF webFrag.FinBit /\ webFrag.OpCode = 1
    THEN [webFrag EXCEPT !.PayloadLength = Len(ReplaceAll(webFrag.Data)),
                         !.Data = ReplaceAll(webFrag.Data)]
    ELSE webFrag

\* what a handler field may hold: nil or the example handler
HandlerValues == {"nil", "redact"}

\* websocFrag = handler(websocFrag), for a handler that is not nil
Apply(h, f) == IF h = "redact" THEN redact(f) ELSE f

\* go proxy.interceptWebsocket(dest, source, proxy.HandleWebSocRequest)
\* go proxy.interceptWebsocket(source, dest, proxy.HandleWebSocResponse)
\* with source the client's connection and dest the target's
pumpArgsMut(p) ==
    IF p = 1
    THEN [dst |-> "target", src |-> "client", handler |-> "HandleWebSocResponse"]
    ELSE [dst |-> "client", src |-> "target", handler |-> "HandleWebSocRequest"]
pumpArgs(p) ==
    IF p = 1
    THEN [dst |-> "target", src |-> "client", handler |-> "HandleWebSocRequest"]
    ELSE [dst |-> "client", src |-> "target", handler |-> "HandleWebSocResponse"]

\* the frames the peers send: a masked final text frame holding the forbidden
\* word, and an unmasked final binary frame
RelayFrames ==
    {Fragment(TRUE, FALSE, FALSE, FALSE, TextMessage, TRUE, 1, TestKey, <<104>>),
     Fragment(TRUE, FALSE, FALSE, FALSE, BinaryMessage, FALSE, 2, ZeroKey, <<104, 255>>)}

\* the bytes of a sequence of fragments written one after the other
RECURSIVE WireOfAll(_)
WireOfAll(fs) ==
    IF fs = <<>> THEN <<>> ELSE Write(Head(fs), TRUE).out \o WireOfAll(Tail(fs))

\* the sequences of up to n frames in which every frame differs from the one
\* before it, so that a frame written twice or out of turn shows
FrameSeqs(n) ==
    {fs \in UNION {[1..k -> RelayFrames] : k \in 0..n} :
        \A i \in 1..(Len(fs) - 1) : fs[i] # fs[i + 1]}

\* a text frame announcing one payload byte that never comes
CutFrame == <<129, 1>>

\* what a peer sends into the relay before it stops: whole frames, or a frame
\* cut short
Streams ==
    {WireOfAll(fs) : fs \in FrameSeqs(MaxFrames)}
        \cup {WireOfAll(fs) \o CutFrame : fs \in FrameSeqs(1)}

\* what a pump's reader may hold: the streams and what is left of them
Unread == UNION {{SubSeq(s, i, Len(s)) : i \in 1..(Len(s) + 1)} : s \in Streams}

\* ReadWebsocketFragment on each of them, computed once
Decoding == [b \in Unread |-> ReadWebsocketFragment(b)]

\* proxy.proxyWebsocket(targetConn, clientConn) is entered, the handshakes done
InitRelay ==
    /\ CodecIdle /\ ProxyIdle /\ CertIdle /\ CallerIdle
    /\ wsHandlers \in [HandlerNames -> HandlerValues]
    /\ relayPc = "go1"
    /\ pumpPc = [p \in Pumps |-> "idle"]
    /\ websocFrag = [p \in Pumps |-> NoFragment]
    /\ inbox \in [Socks -> Streams]
    /\ closed = [x \in Socks |-> FALSE]
    /\ broken = [x \in Socks |-> FALSE]
    /\ outbox = [x \in Socks |-> <<>>]
    /\ framesIn = [x \in Socks |-> <<>>]
    /\ framesOut = [x \in Socks |-> <<>>]
    /\ hcalls = [n \in HandlerNames |-> <<>>]

\* go proxy.interceptWebsocket(...): the first statement starts pump 1, the
\* second pump 2; then <-errChan, a channel on which nothing ever sends, so
\* that proxyWebsocket has no step after the second go statement
GoPump(p) ==
    /\ relayPc = (IF p = 1 THEN "go1" ELSE "go2")
    /\ relayPc' = (IF p = 1 THEN "go2" ELSE "recv")
    /\ pumpPc' = [pumpPc EXCEPT ![p] = "peek"]
    /\ UNCHANGED <<wsHandlers, websocFrag, inbox, closed, broken, outbox,
                   framesIn, framesOut, hcalls>>
    /\ UNCHANGED <<codecVars, proxyVars, certVars, callerVars>>

\* the fragment in hand after `if handler != nil { websocFrag =
\* handler(websocFrag) }`
handled(name, f) == IF wsHandlers[name] # "nil" THEN Apply(wsHandlers[name], f) ELSE f

\* the top of the loop body up to the Write:
\* _, err := scanner.Peek(1), which blocks while the source is open and has
\* no byte; if err == io.EOF { continue };
\* websocFrag, err := ReadWebsocketFragment(scanner); if err != nil { log;
\* continue }: a frame cut short blocks the read until the source is closed;
\* if handler != nil { websocFrag = handler(websocFrag) }
ReadFragment(p) ==
    /\ pumpPc[p] = "peek"
    /\ LET from == pumpArgs(p).src
           name == pumpArgs(p).handler
           r == Decoding[inbox[from]]
       IN  IF inbox[from] = <<>>
           THEN /\ closed[from]
                /\ pumpPc' = [pumpPc EXCEPT ![p] = "eof"]
                /\ UNCHANGED <<websocFrag, inbox, framesIn, hcalls>>
           ELSE IF r.err = Nil
           THEN /\ inbox' = [inbox EXCEPT ![from] = SubSeq(@, r.n + 1, Len(@))]
                /\ framesIn' = [framesIn EXCEPT ![from] = Append(@, r.frag)]
                /\ hcalls' = IF wsHandlers[name] # "nil"
                             THEN [hcalls EXCEPT ![name] = Append(@, r.frag)]
                             ELSE hcalls
                /\ websocFrag' = [websocFrag EXCEPT ![p] = handled(name, r.frag)]
                /\ pumpPc' = [pumpPc EXCEPT ![p] = "write"]
           ELSE /\ closed[from]
                /\ inbox' = [inbox EXCEPT ![from] = <<>>]
                /\ pumpPc' = [pumpPc EXCEPT ![p] = "decodeErr"]
                /\ UNCHANGED <<websocFrag, framesIn, hcalls>>
    /\ UNCHANGED <<wsHandlers, relayPc, closed, broken, outbox, framesOut>>
    /\ UNCHANGED <<codecVars, proxyVars, certVars, callerVars>>

\* websocFrag.Write(dst): what Write returns is dropped (the err tested after
\* it is the one of the decoding); writing to a socket may fail once its peer
\* is gone, and a socket that failed once keeps failing
WriteFragment(p) ==
    /\ pumpPc[p] = "write"
    /\ LET dst == pumpArgs(p).dst
       IN  \E ok \in BOOLEAN :
              /\ broken[dst] => ~ok
              /\ ~closed[dst] => ok
              /\ LET r == Write(websocFrag[p], ok)
                 IN  IF r.err = Nil
                     THEN /\ outbox' = [outbox EXCEPT ![dst] = @ \o r.out]
                          /\ framesOut' = [framesOut EXCEPT ![dst] = Append(@, websocFrag[p])]
                          /\ broken' = broken
                          /\ pumpPc' = [pumpPc EXCEPT ![p] = "peek"]
                     ELSE /\ broken' = [broken EXCEPT ![dst] = ~ok]
                          /\ pumpPc' = [pumpPc EXCEPT ![p] =
                                           IF r.err = "panic" THEN "panic" ELSE "writeFailed"]
                          /\ UNCHANGED <<outbox, framesOut>>
    /\ UNCHANGED <<wsHandlers, relayPc, websocFrag, inbox, closed, framesIn, hcalls>>
    /\ UNCHANGED <<codecVars, proxyVars, certVars, callerVars>>

\* the positions after which the for loop starts over: the continue after
\* io.EOF, the continue after a decoding error, the end of the body after a
\* failed Write
Looping == {"eof", "decodeErr", "writeFailed"}

\* continue / the end of the loop body: back to scanner.Peek(1)
Loop(p) ==
    /\ pumpPc[p] \in Looping
    /\ pumpPc' = [pumpPc EXCEPT ![p] = "peek"]
    /\ UNCHANGED <<wsHandlers, relayPc, websocFrag, inbox, closed, broken,
                   outbox, framesIn, framesOut, hcalls>>
    /\ UNCHANGED <<codecVars, proxyVars, certVars, callerVars>>

\* the peer behind socket x closes the connection
PeerClose(x) ==
    /\ ~closed[x]
    /\ closed' = [closed EXCEPT ![x] = TRUE]
    /\ UNCHANGED <<wsHandlers, relayPc, pumpPc, websocFrag, inbox, broken,
                   outbox, framesIn, framesOut, hcalls>>
    /\ UNCHANGED <<codecVars, proxyVars, certVars, callerVars>>

interceptWebsocket(p) ==
    ReadFragment(p) \/ WriteFragment(p) \/ Loop(p)

NextRelay ==
    \/ \E p \in Pumps : GoPump(p)
    \/ \E p \in Pumps : interceptWebsocket(p)
    \/ \E x \in Socks : PeerClose(x)

SpecRelay == InitRelay /\ [][NextRelay]_vars

\* every goroutine that can run does run: the two pumps and proxyWebsocket
SpecRelayFair ==
    /\ SpecRelay
    /\ \A p \in Pumps : WF_vars(GoPump(p)) /\ WF_vars(interceptWebsocket(p))

-----------------------------------------------------------------------------
(* Properties of the codec *)

\* the fragment handed to Write has a consistent length, a usable key and a
\* 4-bit opcode
WellFormed(f) ==
    /\ Len(f.Data) = f.PayloadLength
    /\ f.MaskBit => Len(f.Key) = 4
    /\ f.OpCode \in 0..15

\* equality on every field, the key compared only when the mask bit is set
SameFragment(g, f) ==
    /\ g.FinBit = f.FinBit
    /\ g.Rsv1 = f.Rsv1 /\ g.Rsv2 = f.Rsv2 /\ g.Rsv3 = f.Rsv3
    /\ g.OpCode = f.OpCode
    /\ g.MaskBit = f.MaskBit
    /\ g.PayloadLength = f.PayloadLength
    /\ g.Data = f.Data
    /\ f.MaskBit => g.Key = f.Key

Decoded == cpc \in {"read", "rewritten"}

\* C1: for every well-formed fragment f (len(Data) = PayloadLength, and a
\* 4-byte key when masked), whatever the Key of an unmasked f holds, Write
\* produces bytes from which ReadWebsocketFragment returns a fragment equal
\* to f.
C1_RoundTrip ==
    (mode = "encode" /\ WellFormed(frame) /\ sinkOk) =>
        /\ cpc # "start" => werr = Nil
        /\ Decoded => rres.err = Nil /\ SameFragment(rres.frag, frame)

\* the round trip of C1 restricted to the fragments whose key is used as the
\* wire format uses it: masked, or unmasked with an all-zero 4-byte key
RoundTripKeyed ==
    (/\ mode = "encode" /\ WellFormed(frame) /\ sinkOk
     /\ frame.MaskBit \/ frame.Key = ZeroKey) =>
        /\ cpc # "start" => werr = Nil
        /\ Decoded => rres.err = Nil /\ SameFragment(rres.frag, frame)

\* C2 as stated: the bytes Write produced for any fragment decode, and the
\* decoded fragment written again gives the same bytes.
C2_ReencodeAnyFragment ==
    (mode = "encode") =>
        /\ Decoded => rres.err = Nil
        /\ cpc = "rewritten" => werr2 = Nil /\ sink2 = sink

\* C2: the bytes Write produced for a fragment with len(Data) = PayloadLength
\* decode, and the decoded fragment written again gives the same bytes.
C2_Reencode ==
    (mode = "encode" /\ Len(frame.Data) = frame.PayloadLength) =>
        /\ Decoded => rres.err = Nil
        /\ cpc = "rewritten" => werr2 = Nil /\ sink2 = sink

C2_Witness ==
    /\ mode = "encode" /\ cpc = "rewritten"
    /\ ~frame.MaskBit /\ frame.Key = TestKey
    /\ Len(frame.Data) = frame.PayloadLength /\ frame.PayloadLength = MaxLen
    /\ sink2 = sink

\* C3: Write on a fragment with the mask bit set and a key whose length is
\* not 4 returns ErrorMaskKeyLength and the sink receives no byte.
C3_InvalidKeyLength ==
    (mode = "encode" /\ cpc # "start" /\ frame.MaskBit /\ Len(frame.Key) # 4) =>
        werr = "ErrorMaskKeyLength" /\ sink = <<>>

C3_Witness ==
    /\ mode = "encode" /\ cpc = "written" /\ sinkOk
    /\ frame.MaskBit /\ Len(frame.Key) = 5 /\ Len(frame.Data) = MaxLen
    /\ werr = "ErrorMaskKeyLength"

\* 82 8B 1A 2B 3C 4D 72 4E 50 21 75 0B 4B 22 68 47 58
ScenarioAWire == <<130, 139, 26, 43, 60, 77, 114, 78, 80, 33, 117, 11, 75, 34, 104, 71, 88>>

\* C4 as stated: "hello world" under key 1A 2B 3C 4D encodes to
\* 82 8B 1A 2B 3C 4D 72 4E 50 21 75 0B 4B 22 68 47 50.
C4_ScenarioAAsStated ==
    (cpc = "written" /\ frame = ScenarioA /\ sinkOk) => sink = TestWire

\* C4: "hello world" under key 1A 2B 3C 4D encodes to
\* 82 8B 1A 2B 3C 4D 72 4E 50 21 75 0B 4B 22 68 47 58; the bytes ending in 50
\* are the encoding of the test's payload 68 65 6C 6C 6F 20 77 6F 72 6C 6C.
C4_ScenarioA ==
    (cpc = "written" /\ sinkOk) =>
        /\ frame = ScenarioA => werr = Nil /\ sink = ScenarioAWire
        /\ frame = TestCaseWrite => werr = Nil /\ sink = TestWire

C4_Witness == cpc = "written" /\ sinkOk /\ frame = ScenarioA /\ Len(sink) = 17

\* C5: a fragment returned without error has PayloadLength = len(Data); with
\* the mask bit set on the wire its Key is the four wire key bytes and Data is
\* the wire payload XOR the cycled key; with the mask bit clear Data is the
\* wire payload and Key is four zero bytes.
C5_DecodePostcondition ==
    (Decoded /\ rres.err = Nil) =>
        LET f == rres.frag
            l7 == src[2] % 128
            ext == IF l7 = 126 THEN 2 ELSE IF l7 = 127 THEN 8 ELSE 0
        IN  /\ f.PayloadLength = Len(f.Data)
            /\ src[2] >= 128 =>
                 /\ f.Key = SubSeq(src, 3 + ext, 6 + ext)
                 /\ \A i \in 1..Len(f.Data) :
                        f.Data[i] = Xor(src[6 + ext + i], f.Key[((i - 1) % 4) + 1])
            /\ src[2] < 128 =>
                 /\ f.Key = <<0, 0, 0, 0>>
                 /\ f.Data = SubSeq(src, 3 + ext, 2 + ext + Len(f.Data))

C5_Witness ==
    /\ mode = "decode" /\ cpc = "read" /\ src = TestWire
    /\ rres.err = Nil /\ rres.frag.Data = HelloWorll /\ rres.frag.Key = TestKey

\* the length field Write emits for the boundary payload lengths
LengthFormSelected ==
    (mode = "encode" /\ cpc # "start" /\ werr = Nil /\ frame \in BoundaryFragments) =>
        LET n == frame.PayloadLength
            m == IF frame.MaskBit THEN 128 ELSE 0
            k == IF frame.MaskBit THEN 4 ELSE 0
        IN  /\ n = 125 => sink[2] = m + 125 /\ Len(sink) = 2 + k + n
            /\ n = 126 => SubSeq(sink, 2, 4) = <<m + 126, 0, 126>> /\ Len(sink) = 4 + k + n
            /\ n = 65535 => SubSeq(sink, 2, 4) = <<m + 126, 255, 255>> /\ Len(sink) = 4 + k + n
            /\ n = 65536 => /\ SubSeq(sink, 2, 10) = <<m + 127, 0, 0, 0, 0, 0, 1, 0, 0>>
                            /\ Len(sink) = 10 + k + n

LengthRecovered ==
    (mode = "encode" /\ Decoded /\ frame \in BoundaryFragments) =>
        rres.err = Nil /\ rres.frag.PayloadLength = frame.PayloadLength

\* C6 as stated: the boundary lengths select the 7-bit, 16-bit, 16-bit and
\* 64-bit forms, the decoder recovers them, and 82 FE 00 7E followed by 126
\* payload bytes decodes to fin, opcode 2, masked = false, payload_length 126.
C6_LengthFormsAsStated ==
    /\ LengthFormSelected
    /\ LengthRecovered
    /\ (Decoded /\ src = Wire126Short) =>
          /\ rres.err = Nil
          /\ rres.frag.FinBit /\ rres.frag.OpCode = 2
          /\ ~rres.frag.MaskBit /\ rres.frag.PayloadLength = 126

\* C6: the boundary lengths select the 7-bit, 16-bit, 16-bit and 64-bit
\* forms and the decoder recovers them; 82 FE 00 7E announces a MASKED frame
\* of 126 bytes: followed by a 4-byte key and 126 payload bytes it decodes to
\* fin, opcode 2, masked = true, payload_length 126, followed by 126 bytes
\* only the decoder runs out of input; the unmasked header is 82 7E 00 7E.
C6_LengthForms ==
    /\ LengthFormSelected
    /\ LengthRecovered
    /\ (Decoded /\ src = Wire126Masked) =>
          /\ rres.err = Nil
          /\ rres.frag.FinBit /\ rres.frag.OpCode = 2
          /\ rres.frag.MaskBit /\ rres.frag.PayloadLength = 126
    /\ (Decoded /\ src = Wire126Short) => rres.err = "EOF"
    /\ (Decoded /\ src = Wire126Unmasked) =>
          /\ rres.err = Nil
          /\ rres.frag.FinBit /\ rres.frag.OpCode = 2
          /\ ~rres.frag.MaskBit /\ rres.frag.PayloadLength = 126

C6_Witness ==
    /\ mode = "encode" /\ cpc = "read" /\ frame \in BoundaryFragments
    /\ frame.PayloadLength = 126 /\ ~frame.MaskBit
    /\ SubSeq(sink, 2, 4) = <<126, 0, 126>>
    /\ rres.err = Nil /\ rres.frag.PayloadLength = 126

\* the last n bytes Write handed to the writer: the payload
Payload(out, n) == SubSeq(out, Len(out) - n + 1, Len(out))

\* C20: when MaskBit is false, the payload bytes Write emits equal Data
\* whatever Key holds (nil or empty, or any four bytes), and the call does not
\* fail because of Key.
C20_UnmaskedVerbatim ==
    (/\ mode = "encode" /\ cpc # "start" /\ sinkOk /\ WellFormed(frame)
     /\ ~frame.MaskBit /\ Len(frame.Key) \in {0, 4}) =>
        /\ werr = Nil
        /\ Payload(sink, Len(frame.Data)) = frame.Data

\* what holds of an unmasked Write: the payload is Data when the key is four
\* zero bytes or there is no payload
UnmaskedVerbatimZeroKey ==
    (/\ mode = "encode" /\ cpc # "start" /\ sinkOk /\ ~frame.MaskBit
     /\ frame.Key = ZeroKey \/ frame.Data = <<>>) =>
        /\ werr = Nil
        /\ Payload(sink, Len(frame.Data)) = frame.Data

\* byte 0 as the wire format lays it out: fin, rsv1..rsv3, opcode & 0x0F
ByteZero(f) ==
    (IF f.FinBit THEN finalBit ELSE 0) + (IF f.Rsv1 THEN rsv1Bit ELSE 0)
        + (IF f.Rsv2 THEN rsv2Bit ELSE 0) + (IF f.Rsv3 THEN rsv3Bit ELSE 0)
        + (f.OpCode % 16)

\* C21: for every fragment, one whose OpCode lies outside 0..15 included, bit
\* 7 of the first byte written is FinBit, bits 6..4 are Rsv1..Rsv3 and bits
\* 3..0 are OpCode mod 16: an opcode out of range never alters fin or rsv.
C21_ByteZeroLayout ==
    (mode = "encode" /\ cpc # "start" /\ werr = Nil) =>
        sink[1] = ByteZero(frame)

\* the layout of byte 0 that does hold: for an opcode within 0..15
ByteZeroInRange ==
    (mode = "encode" /\ cpc # "start" /\ werr = Nil /\ frame.OpCode \in 0..15) =>
        sink[1] = ByteZero(frame)

-----------------------------------------------------------------------------
(* Properties of ServeHTTP *)

Events(c) == 1..Len(log[c])

Is(c, i, kind) == log[c][i][1] = kind

\* HandleRequest returned a response for the request of connection c
ShortCircuited(c) ==
    \E i \in Events(c) : Is(c, i, "HandleRequest") /\ log[c][i][3] = "handler"

\* C7: on the plaintext path, when HandleRequest returns a response, that
\* response is the one written to the client, the upstream client is not
\* invoked, and HandleResponse (when installed) is invoked on that response
\* before it is written.
C7_ShortCircuit ==
    \A c \in Conns :
        (path[c] = "plain" /\ ShortCircuited(c)) =>
            /\ \A i \in Events(c) : ~Is(c, i, "Upstream")
            /\ \A j \in Events(c) :
                   Is(c, j, "WriteResp") =>
                       /\ log[c][j][2] = "handler"
                       /\ handleResponseSet =>
                              \E k \in 1..(j - 1) :
                                  log[c][k] = <<"HandleResponse", sid[c], "handler">>
            /\ pc[c] = "done" => \E j \in Events(c) : Is(c, j, "WriteResp")

C7_Witness ==
    \E c \in Conns :
        /\ path[c] = "plain" /\ ShortCircuited(c) /\ pc[c] = "done"
        /\ handleResponseSet
        /\ \E j \in Events(c) : log[c][j] = <<"WriteResp", "handler", TRUE>>

Assigned == {c \in Conns : sid[c] # NoSession}

\* C8: every ServeHTTP invocation obtains a distinct session id, the ids are
\* handed out as 0, 1, 2, ... in that order, and p.session never decreases.
C8_SessionIds ==
    /\ [](/\ \A c1, c2 \in Assigned : c1 # c2 => sid[c1] # sid[c2]
          /\ \A i \in 1..Len(issued) : issued[i] = i - 1
          /\ {sid[c] : c \in Assigned} = {issued[i] : i \in 1..Len(issued)})
    /\ [][session' >= session]_vars

C8_Witness ==
    /\ Assigned = Conns
    /\ \A c \in Conns : pc[c] = "done"
    /\ session = NumConns

\* C9: for every request handed to forwardReq/forwardResp, on the plaintext
\* path or in a CONNECT tunnel, the handlers are invoked with the session id
\* assigned to the connection's ServeHTTP invocation, HandleRequest before
\* HandleResponse.
C9_HandlerCorrelation ==
    \A c \in Conns :
        /\ \A i \in Events(c) :
               (Is(c, i, "HandleRequest") \/ Is(c, i, "HandleResponse")) =>
                   log[c][i][2] = sid[c]
        /\ handleRequestSet =>
               \A j \in Events(c) :
                   Is(c, j, "HandleResponse") =>
                       \E i \in 1..(j - 1) : Is(c, i, "HandleRequest")
        /\ (pc[c] = "forwardReq" /\ handleRequestSet) => sessionOf(c) = sid[c]
        /\ (pc[c] = "forwardResp" /\ handleResponseSet) => sessionOf(c) = sid[c]

\* what holds of the handler invocations that do happen: they carry the
\* assigned id, HandleRequest first; in a tunnel none happens
HandlerInvocations ==
    \A c \in Conns :
        /\ \A i \in Events(c) :
               (Is(c, i, "HandleRequest") \/ Is(c, i, "HandleResponse")) =>
                   log[c][i][2] = sid[c] /\ path[c] = "plain"
        /\ handleRequestSet =>
               \A j \in Events(c) :
                   Is(c, j, "HandleResponse") =>
                       \E i \in 1..(j - 1) : Is(c, i, "HandleRequest")

\* the invocation of connection c logged an event of this kind
Has(c, kind) == \E i \in Events(c) : Is(c, i, kind)

\* the invocation of connection c logged this two-field event
Did(c, kind, what) == \E i \in Events(c) : Is(c, i, kind) /\ log[c][i][2] = what

\* the number of events of this kind connection c logged
RECURSIVE CountUpTo(_, _, _)
CountUpTo(c, kind, n) ==
    IF n = 0 THEN 0
    ELSE CountUpTo(c, kind, n - 1) + (IF Is(c, n, kind) THEN 1 ELSE 0)

Count(c, kind) == CountUpTo(c, kind, Len(log[c]))

TlsTunnel(c) == path[c] = "tunnel" /\ Did(c, "Open", "probe")

\* the CONNECT of connection c took the branch of the failed probe
PlainTunnel(c) ==
    path[c] = "tunnel" /\ Has(c, "Write200") /\ ~Did(c, "Open", "probe")

\* C16: in the TLS branch of a tunnel, a well-formed non-WebSocket request
\* that was read is forwarded exactly once (HandleRequest when installed, then
\* the upstream client unless the handler answered) and a response is written
\* into the tunnel before the invocation returns; a WebSocket upgrade is not
\* forwarded.
C16_TlsForwarding ==
    \A c \in Conns :
        /\ (TlsTunnel(c) /\ Did(c, "ReadRequest", "http") /\ pc[c] = "done") =>
               /\ handleRequestSet => Count(c, "HandleRequest") = 1
               /\ Count(c, "Upstream") = 1 \/ ShortCircuited(c)
               /\ Count(c, "Upstream") <= 1
               /\ Did(c, "Upstream", FALSE) \/ Has(c, "WriteResp")
        /\ (TlsTunnel(c) /\ Did(c, "ReadRequest", "websocket")) =>
               /\ ~Has(c, "Upstream") /\ ~Has(c, "HandleRequest")
               /\ ~Has(c, "WriteResp")

\* the part of C16 about upgrades, which holds
TlsUpgradeNotForwarded ==
    \A c \in Conns :
        (TlsTunnel(c) /\ Did(c, "ReadRequest", "websocket")) =>
            /\ ~Has(c, "Upstream") /\ ~Has(c, "HandleRequest")
            /\ ~Has(c, "WriteResp")
            /\ pc[c] \in {"serveWebsocket", "proxyWebsocket", "blocked", "done"}

\* C17: after a failed probe one request is read from the raw socket: an
\* upgrade goes to the relay, and in every other case (a request that is no
\* upgrade, a failed or garbled read) the invocation ends cleanly, with no
\* relay, no handler and no upstream forward.
C17_PlainWs ==
    \A c \in Conns :
        /\ (PlainTunnel(c) /\ Did(c, "ReadRequest", "websocket")) =>
               pc[c] \in {"serveWebsocket", "proxyWebsocket", "blocked", "done"}
        /\ (PlainTunnel(c)
              /\ (Did(c, "ReadRequest", "http") \/ Did(c, "ReadRequest", "err"))) =>
               /\ pc[c] = "done"
               /\ ~Has(c, "panic")
               /\ ~Has(c, "go") /\ ~Has(c, "Write101")
               /\ ~Has(c, "HandleRequest") /\ ~Has(c, "HandleResponse")
               /\ ~Has(c, "Upstream")

\* what holds after a failed probe: only an upgrade starts the relay, and
\* nothing is forwarded or handed to a handler
PlainWsNeverForwards ==
    \A c \in Conns :
        PlainTunnel(c) =>
            /\ ~Has(c, "HandleRequest") /\ ~Has(c, "HandleResponse")
            /\ ~Has(c, "Upstream")
            /\ Has(c, "go") => Did(c, "ReadRequest", "websocket")
            /\ Did(c, "ReadRequest", "http") => ~Has(c, "panic")

\* C18: when the upstream request fails on the plaintext path, a 500 is
\* written to the client's hijacked connection and HandleResponse is not
\* invoked.
C18_UpstreamFailure ==
    \A c \in Conns :
        (path[c] = "plain" /\ Did(c, "Upstream", FALSE)) =>
            /\ Did(c, "HttpError", "clientConn")
            /\ ~Has(c, "HandleResponse")

\* the part of C18 about the response handler, which holds
UpstreamFailureSkipsHandler ==
    \A c \in Conns :
        (path[c] = "plain" /\ Did(c, "Upstream", FALSE)) =>
            /\ ~Has(c, "HandleResponse") /\ ~Has(c, "WriteResp")
            /\ Did(c, "HttpError", "wrt")

\* C22: the two pumps are started only after the upstream answered the
\* upgrade request with status 101: when the upstream dial fails, the answer
\* cannot be read or its status is not 101, serveWebsocket returns with no
\* pump started, so no frame is relayed.
C22_HandshakeGate ==
    \A c \in Conns :
        /\ Has(c, "go") => Did(c, "Answer", "101")
        /\ (\/ Did(c, "Dial", FALSE)
            \/ Did(c, "Answer", "readErr")
            \/ Did(c, "Answer", "not101")) =>
               ~Has(c, "go") /\ pc[c] = "done"

C22_Witness ==
    /\ \E c \in Conns :
           /\ pc[c] = "done" /\ Did(c, "Answer", "not101") /\ ~Has(c, "go")
           /\ Did(c, "Close", "target")
    /\ \E c \in Conns :
           pc[c] = "blocked" /\ Did(c, "Answer", "101") /\ Has(c, "go")

\* the sockets an invocation acquires: the hijacked client connection, the
\* connection of the TLS probe, the upstream WebSocket connection
Sockets == {"client", "probe", "target"}

\* C23: every socket acquired for a connection is closed on every path by
\* which the handling of the connection ends, the paths of a failed Hijack, of
\* a successful probe and of a failed handshake included; no path ends in a
\* panic of a deferred Close.
C23_SocketsClosed ==
    \A c \in Conns :
        pc[c] = "done" =>
            /\ \A x \in Sockets : Did(c, "Open", x) => Did(c, "Close", x)
            /\ ~Did(c, "panic", "nil clientConn")

\* the closures that do happen: the client connection and the upstream
\* WebSocket connection are closed on every path that ends
ClientAndTargetClosed ==
    \A c \in Conns :
        pc[c] = "done" =>
            \A x \in {"client", "target"} : Did(c, "Open", x) => Did(c, "Close", x)

-----------------------------------------------------------------------------
(* Properties of the certificate cache *)

Calls == 1..Len(history)

\* C10: once getCert(ca, h) has returned a leaf for h, every later call
\* getCert(ca, h) returns that same leaf without minting again, and the leaf
\* returned for h is never one made for another hostname.
C10_Memoized ==
    /\ \A i, j \in Calls :
           (i < j /\ history[i].host = history[j].host /\ history[i].leaf # NoLeaf) =>
               history[j].leaf = history[i].leaf /\ ~history[j].fresh
    /\ \A i \in Calls :
           history[i].leaf # NoLeaf => history[i].leaf.host = history[i].host

\* the memoization that does hold: between two calls with no NewProxy
\* in between
MemoizedPerProxy ==
    /\ \A i, j \in Calls :
           (/\ i < j /\ history[i].host = history[j].host /\ history[i].leaf # NoLeaf
            /\ history[i].gen = history[j].gen) =>
               history[j].leaf = history[i].leaf /\ ~history[j].fresh
    /\ \A i \in Calls :
           history[i].leaf # NoLeaf => history[i].leaf.host = history[i].host

\* C19: the cache only grows: a hostname once cached stays cached with the
\* same leaf, whatever happens next, the construction of a second Proxy
\* included.
C19_CacheOnlyGrows ==
    [][\A h \in Hosts : cached(h) => certs'[h] = certs[h]]_vars

\* the steps of getCert alone never drop or replace an entry
GetCertOnlyGrows ==
    [][proxies' = proxies =>
          \A h \in Hosts : cached(h) => certs'[h] = certs[h]]_vars

\* the leaves that getCert calls returned for hostname h
Observed(h) == {history[i].leaf : i \in {j \in Calls : history[j].host = h}} \ {NoLeaf}

\* the getCert calls for hostname h that minted a leaf and stored it
Mints(h) == {i \in Calls : history[i].host = h /\ history[i].fresh}

\* C11: when several handshakes call getCert concurrently for a hostname that
\* is not cached, the misses are serialized: at most one leaf is minted for
\* the hostname, and no two callers observe distinct leaves for it.
C11_SingleLeafPerHost ==
    \A h \in Hosts :
        /\ Cardinality(Observed(h)) <= 1
        /\ Cardinality(Mints(h)) <= 1
        /\ \A k1, k2 \in Callers :
               (/\ k1 # k2 /\ callHost[k1] = h /\ callHost[k2] = h
                /\ callPc[k1] = "store" /\ callPc[k2] = "store") =>
                   callCert[k1] = callCert[k2]

\* what holds of concurrent callers: a leaf returned for h was made for h,
\* and the map holds for h the leaf of the last store
ObservedLeafIsForHost ==
    /\ \A i \in Calls :
           history[i].leaf # NoLeaf => history[i].leaf.host = history[i].host
    /\ \A h \in Hosts : cached(h) => certs[h] \in Observed(h)

-----------------------------------------------------------------------------
(* Properties of the WebSocket relay *)

\* pump p is at a point where it is over: its source reported io.EOF or a
\* decoding error, or its Write failed
Over(p) == pumpPc[p] \in Looping

\* C13: once a pump of the relay is over, the relay as a whole ends:
\* proxyWebsocket returns, and the other pump is made to exit too.
C13_RelayTerminates ==
    (\E p \in Pumps : Over(p)) ~>
        (relayPc = "returned" /\ \A p \in Pumps : pumpPc[p] = "exited")

\* C14: a pump whose source reported io.EOF or an error, or whose Write
\* failed, exits its loop: it does not go back to reading the source.
C14_PumpExits ==
    [][\A p \in Pumps :
          Over(p) => pumpPc'[p] \in {pumpPc[p], "exited"}]_vars

\* what the relay does instead: proxyWebsocket never gets past <-errChan, and
\* a started pump is always in its loop
RelayNeverEnds ==
    /\ relayPc \in {"go1", "go2", "recv"}
    /\ \A p \in Pumps : pumpPc[p] \in {"idle", "peek", "write"} \cup Looping

IsPrefix(a, b) == Len(a) <= Len(b) /\ \A i \in 1..Len(a) : a[i] = b[i]

\* the fragments a direction is to write for the fragments fs it decoded,
\* given the value v of its handler field
RECURSIVE Expected(_, _)
Expected(v, fs) ==
    IF fs = <<>> THEN <<>>
    ELSE <<IF v = "nil" THEN Head(fs) ELSE Apply(v, Head(fs))>> \o Expected(v, Tail(fs))

\* the relay from socket a to socket b, whose handler field is name: what
\* was written is, in order, the handler's result on what was decoded, at
\* most the fragment in hand behind unless b failed; the bytes on b are those
\* fragments' encodings; the handler saw exactly the decoded fragments
Direction(a, b, name) ==
    /\ IsPrefix(framesOut[b], Expected(wsHandlers[name], framesIn[a]))
    /\ broken[b] \/ Len(framesIn[a]) - Len(framesOut[b]) <= 1
    /\ outbox[b] = WireOfAll(framesOut[b])
    /\ hcalls[name] = (IF wsHandlers[name] = "nil" THEN <<>> ELSE framesIn[a])

\* C15: in each direction the frames written to the sink are, in the same
\* order, the direction's handler (HandleWebSocRequest from client to target,
\* HandleWebSocResponse from target to client, the identity when unset)
\* applied to the frames decoded from the source: none reordered, none
\* duplicated, none handed to the other direction's handler.
C15_FrameOrderAndRouting ==
    /\ Direction("client", "target", "HandleWebSocRequest")
    /\ Direction("target", "client", "HandleWebSocResponse")

C15_Witness ==
    /\ wsHandlers["HandleWebSocRequest"] = "redact"
    /\ wsHandlers["HandleWebSocResponse"] = "nil"
    /\ Len(framesOut["target"]) = 2 /\ Len(framesOut["client"]) = 2
    /\ framesIn["client"][1] # framesIn["client"][2]
    /\ framesOut["target"] # framesIn["client"]
    /\ framesOut["client"] = framesIn["target"]

=============================================================================
